---- MODULE Spec2Model ----
(***************************************************************************)
(* Relationship engine of server-userprofile: the connections router       *)
(* (routes/conversations.js, same handlers as routes/connections copy.js)  *)
(* over the Connection collection, and the career-agent router             *)
(* (routes/careerAgent copy.js) over the CareerAgent collection.           *)
(*                                                                         *)
(* A collection is a set of documents, each with its _id.  A handler is an *)
(* operator from the collection and the request to the collection after    *)
(* the request and the response; the action applies it.  The response is   *)
(* kept in `last` with the call that produced it.                          *)
(***************************************************************************)
EXTENDS Integers, Sequences, FiniteSets, TLC

VARIABLES connections, careerAgents, caIds, router, last, calls,
          verifications, verificationIds, clock, verifying, compared

\* the Verification collection, the ids given out, the time, the verify-code
\* calls between their findOne and their save, the comparisons made so far
verificationVars == <<verifications, verificationIds, clock, verifying, compared>>

vars == <<connections, careerAgents, caIds, router, last, calls, verificationVars>>

(***************************************************************************)
(* Values                                                                  *)
(***************************************************************************)
\* JavaScript undefined / null: a field that is absent from a body or a document
NULL == "null"

Users == {"u1", "u2", "u3"}

\* the UserProfile collection (the Identity Directory); "ghost" has no profile:
\* verifyToken checks the token of a caller, not their profile
Ghost == "ghost"
Profiles == Users

Kinds == {"friend", "careerAgent"}

Statuses == {"active", "inactive", "pending", "proposed", "requested", "rejected"}

\* the statuses accept takes a connection from
acceptableStatuses == {"requested", "proposed", "pending"}

\* the career-agent router finds a relationship to accept or reject by these
pendingOrProposed == {"pending", "proposed"}

(***************************************************************************)
(* Bounds of the model                                                     *)
(***************************************************************************)
\* relationships ever created: in the life of one relationship (Spec), and
\* where relationships compete (SpecExclusive)
MaxOpen == 1
MaxDocs == 2

\* Date values: new Date() reads one of 1..MaxTime
MaxTime == 1
\* verification records issued, the clock's last tick, verify-code calls in
\* flight at once, comparisons counted per record
MaxRecords == 1
MaxClock == 2
MaxInFlight == 2
MaxCompared == 4

Times == 1..MaxTime

\* a Date field that is null
NoDate == 0

(***************************************************************************)
(* Responses.  `res` is the failure class the response falls in: a 400 is  *)
(* a ValidationError when the request itself is malformed and a Conflict   *)
(* when the stored relationships refuse it; the catch-all 500 is the       *)
(* InternalError.                                                          *)
(***************************************************************************)
Resp(db, code, res, id) == [db |-> db, code |-> code, res |-> res, id |-> id]

Results == {"OK", "ValidationError", "NotFound", "Conflict", "Forbidden", "InternalError"}

(***************************************************************************)
(* models/Connection.js                                                    *)
(***************************************************************************)
ConnectionDoc(id, type, agent, cand, req, rec, st, msg, t) ==
    [_id |-> id, connectionType |-> type,
     careerAgentId |-> agent, candidateId |-> cand,
     requestorUserId |-> req, recipientUserId |-> rec,
     relationshipStatus |-> st,
     startDate |-> t,            \* default: Date.now
     endDate |-> NoDate,         \* default: null
     message |-> msg]

\* schema validation run by save(): enums and the conditionally required ids
ConnectionValid(d) ==
    /\ d.connectionType \in Kinds
    /\ d.relationshipStatus \in Statuses
    /\ d.connectionType = "careerAgent" => (d.careerAgentId # NULL /\ d.candidateId # NULL)
    /\ d.connectionType = "friend" => (d.requestorUserId # NULL /\ d.recipientUserId # NULL)

\* unique partial index {candidateId, relationshipStatus, connectionType} on
\* active careerAgent documents
ActiveCandidateIndex(db) ==
    \A d1 \in db : \A d2 \in db :
        (/\ d1._id # d2._id
         /\ d1.connectionType = "careerAgent" /\ d2.connectionType = "careerAgent"
         /\ d1.relationshipStatus = "active" /\ d2.relationshipStatus = "active")
        => d1.candidateId # d2.candidateId

\* unique partial index {requestorUserId, recipientUserId, connectionType} on
\* friend documents
FriendPairIndex(db) ==
    \A d1 \in db : \A d2 \in db :
        (/\ d1._id # d2._id
         /\ d1.connectionType = "friend" /\ d2.connectionType = "friend")
        => ~(/\ d1.requestorUserId = d2.requestorUserId
             /\ d1.recipientUserId = d2.recipientUserId)

ConnectionIndexes(db) == ActiveCandidateIndex(db) /\ FriendPairIndex(db)

\* Connection.findById
FindById(db, id) == {d \in db : d._id = id}

Doc(db, id) == CHOOSE d \in db : d._id = id

\* the _id a new document gets
NewId(db) == Cardinality(db) + 1

\* new Connection(data).save(): "ok", or the error save() throws
InsertResult(db, doc) ==
    IF ~ConnectionValid(doc) THEN "ValidationFailed"
    ELSE IF ~ConnectionIndexes(db \cup {doc}) THEN "E11000"
    ELSE "ok"

\* connection.save() of a loaded document writes the paths whose value the
\* handler changed into the stored document with that _id
Merge(cur, loaded, edited) ==
    [f \in DOMAIN cur |-> IF edited[f] # loaded[f] THEN edited[f] ELSE cur[f]]

Replace(db, doc) == {d \in db : d._id # doc._id} \cup {doc}

Saved(db, loaded, edited) == Replace(db, Merge(Doc(db, loaded._id), loaded, edited))

\* save() on a collection whose unique indexes were never built
SaveResultUnindexed(db, loaded, edited) ==
    IF ~ConnectionValid(edited) THEN "ValidationFailed"
    ELSE IF FindById(db, loaded._id) = {} THEN "DocumentNotFound"
    ELSE "ok"

\* "ok", or the error save() throws; a unique index refuses the write
SaveResult(db, loaded, edited) ==
    IF ~ConnectionValid(edited) THEN "ValidationFailed"
    ELSE IF FindById(db, loaded._id) = {} THEN "DocumentNotFound"
    ELSE IF ~ConnectionIndexes(Saved(db, loaded, edited)) THEN "E11000"
    ELSE "ok"

(***************************************************************************)
(* routes/conversations.js: the connections router.  Every handler is a    *)
(* check of the request against the collection as it reads it, followed by *)
(* a write; <Handler>Outcome is the two run back to back.                  *)
(***************************************************************************)
\* Connection.findOne({$or: [{requestorUserId, recipientUserId, connectionType},
\*                           {the same two swapped}]})
ExistingConnection(db, req, rec, type) ==
    {d \in db :
        /\ d.connectionType = type
        /\ \/ (d.requestorUserId = req /\ d.recipientUserId = rec)
           \/ (d.requestorUserId = rec /\ d.recipientUserId = req)}

\* POST /: the body has careerAgentId, candidateId, requestorUserId,
\* recipientUserId, connectionType, message, relationshipStatus
CreateCheck(db, b) ==
    IF b.connectionType \notin Kinds THEN "ValidationError"
    ELSE IF b.connectionType = "careerAgent"
            /\ (b.careerAgentId = NULL \/ b.candidateId = NULL) THEN "ValidationError"
    ELSE IF b.connectionType = "friend"
            /\ (b.requestorUserId = NULL \/ b.recipientUserId = NULL) THEN "ValidationError"
    ELSE IF b.requestorUserId \notin Profiles THEN "NotFound"
    ELSE IF b.recipientUserId \notin Profiles THEN "NotFound"
    ELSE IF ExistingConnection(db, b.requestorUserId, b.recipientUserId,
                               b.connectionType) # {} THEN "Conflict"
    ELSE "pass"

CreateData(id, b, t) ==
    ConnectionDoc(id, b.connectionType,
        IF b.connectionType = "careerAgent" THEN b.careerAgentId ELSE NULL,
        IF b.connectionType = "careerAgent" THEN b.candidateId ELSE NULL,
        b.requestorUserId, b.recipientUserId,
        IF b.relationshipStatus = NULL THEN "pending" ELSE b.relationshipStatus,
        b.message, t)

\* the catch of POST / answers a duplicate key with 400
CreateSave(db, b, t) ==
    LET doc == CreateData(NewId(db), b, t)
        r == InsertResult(db, doc)
    IN  IF r = "ok" THEN Resp(db \cup {doc}, 201, "OK", doc._id)
        ELSE IF r = "E11000" THEN Resp(db, 400, "Conflict", 0)
        ELSE Resp(db, 500, "InternalError", 0)

Refusal(db, chk) ==
    IF chk = "ValidationError" THEN Resp(db, 400, chk, 0)
    ELSE IF chk = "Conflict" THEN Resp(db, 400, chk, 0)
    ELSE IF chk = "NotFound" THEN Resp(db, 404, chk, 0)
    ELSE Resp(db, 403, chk, 0)

CreateOutcome(db, b, t) ==
    LET chk == CreateCheck(db, b)
    IN  IF chk = "pass" THEN CreateSave(db, b, t) ELSE Refusal(db, chk)

\* the stored connections the 400 of POST / identifies: its body carries
\* success and message only
CreateBlocking(db, b) == {}

\* POST /request: requestorUserId is the caller
RequestCheck(db, requestorUserId, recipientUserId, connectionType) ==
    IF recipientUserId = NULL \/ connectionType = NULL THEN "ValidationError"
    ELSE IF connectionType \notin Kinds THEN "ValidationError"
    ELSE IF recipientUserId \notin Profiles THEN "NotFound"
    ELSE IF ExistingConnection(db, requestorUserId, recipientUserId,
                               connectionType) # {} THEN "Conflict"
    ELSE "pass"

RequestData(id, requestorUserId, recipientUserId, connectionType, message, t) ==
    ConnectionDoc(id, connectionType,
        IF connectionType = "careerAgent" THEN requestorUserId ELSE NULL,
        IF connectionType = "careerAgent" THEN recipientUserId ELSE NULL,
        requestorUserId, recipientUserId, "requested", message, t)

\* the catch of POST /request and POST /propose answers every error with 500
InsertOr500(db, doc) ==
    IF InsertResult(db, doc) = "ok" THEN Resp(db \cup {doc}, 201, "OK", doc._id)
    ELSE Resp(db, 500, "InternalError", 0)

RequestSave(db, requestorUserId, recipientUserId, connectionType, message, t) ==
    InsertOr500(db, RequestData(NewId(db), requestorUserId, recipientUserId,
                                connectionType, message, t))

RequestOutcome(db, requestorUserId, recipientUserId, connectionType, message, t) ==
    LET chk == RequestCheck(db, requestorUserId, recipientUserId, connectionType)
    IN  IF chk = "pass"
        THEN RequestSave(db, requestorUserId, recipientUserId, connectionType, message, t)
        ELSE Refusal(db, chk)

\* POST /propose: careerAgentUserId is the caller
ExistingProposal(db, careerAgentUserId, candidateUserId) ==
    {d \in db :
        /\ d.connectionType = "careerAgent"
        /\ \/ (d.careerAgentId = careerAgentUserId /\ d.candidateId = candidateUserId)
           \/ (d.requestorUserId = careerAgentUserId /\ d.recipientUserId = candidateUserId)
           \/ (d.requestorUserId = candidateUserId /\ d.recipientUserId = careerAgentUserId)}

ProposeCheck(db, careerAgentUserId, candidateUserId) ==
    IF candidateUserId = NULL THEN "ValidationError"
    ELSE IF candidateUserId \notin Profiles THEN "NotFound"
    ELSE IF ExistingProposal(db, careerAgentUserId, candidateUserId) # {} THEN "Conflict"
    ELSE "pass"

ProposeData(id, careerAgentUserId, candidateUserId, message, t) ==
    ConnectionDoc(id, "careerAgent", careerAgentUserId, candidateUserId,
                  careerAgentUserId, candidateUserId, "proposed", message, t)

ProposeSave(db, careerAgentUserId, candidateUserId, message, t) ==
    InsertOr500(db, ProposeData(NewId(db), careerAgentUserId, candidateUserId, message, t))

ProposeOutcome(db, careerAgentUserId, candidateUserId, message, t) ==
    LET chk == ProposeCheck(db, careerAgentUserId, candidateUserId)
    IN  IF chk = "pass"
        THEN ProposeSave(db, careerAgentUserId, candidateUserId, message, t)
        ELSE Refusal(db, chk)

\* accept without the check of acceptableStatuses
AcceptCheckAnyStatus(db, connectionId, userId) ==
    IF FindById(db, connectionId) = {} THEN "NotFound"
    ELSE LET connection == Doc(db, connectionId)
             isRecipient == connection.recipientUserId = userId
             isCandidate == connection.candidateId = userId
         IN  IF ~isRecipient /\ ~isCandidate THEN "Forbidden" ELSE "pass"

\* PUT /:connectionId/accept
AcceptCheck(db, connectionId, userId) ==
    IF FindById(db, connectionId) = {} THEN "NotFound"
    ELSE LET connection == Doc(db, connectionId)
             isRecipient == connection.recipientUserId = userId
             isCandidate == connection.candidateId = userId
         IN  IF ~isRecipient /\ ~isCandidate THEN "Forbidden"
             ELSE IF connection.relationshipStatus \notin acceptableStatuses THEN "Conflict"
             ELSE "pass"

\* the catch of accept, reject and update answers every error with 500
SaveOr500(db, loaded, edited) ==
    IF SaveResult(db, loaded, edited) = "ok"
    THEN Resp(Saved(db, loaded, edited), 200, "OK", loaded._id)
    ELSE Resp(db, 500, "InternalError", loaded._id)

\* accept that also closes the connection
AcceptEditClosing(connection, t) ==
    [connection EXCEPT !.relationshipStatus = "active", !.startDate = t, !.endDate = t]

AcceptEdit(connection, t) ==
    [connection EXCEPT !.relationshipStatus = "active", !.startDate = t]

AcceptOutcome(db, connectionId, userId, t) ==
    LET chk == AcceptCheck(db, connectionId, userId)
    IN  IF chk = "pass"
        THEN SaveOr500(db, Doc(db, connectionId), AcceptEdit(Doc(db, connectionId), t))
        ELSE Refusal(db, chk)

\* reject without the check of who calls
RejectCheckAnyone(db, connectionId, userId) ==
    IF FindById(db, connectionId) = {} THEN "NotFound" ELSE "pass"

\* PUT /:connectionId/reject
RejectCheck(db, connectionId, userId) ==
    IF FindById(db, connectionId) = {} THEN "NotFound"
    ELSE LET connection == Doc(db, connectionId)
         IN  IF connection.recipientUserId # userId /\ connection.candidateId # userId
             THEN "Forbidden"
             ELSE "pass"

RejectEdit(connection, message) ==
    [connection EXCEPT !.relationshipStatus = "rejected",
                       !.message = IF message # NULL THEN message ELSE @]

RejectOutcome(db, connectionId, userId, message) ==
    LET chk == RejectCheck(db, connectionId, userId)
    IN  IF chk = "pass"
        THEN SaveOr500(db, Doc(db, connectionId), RejectEdit(Doc(db, connectionId), message))
        ELSE Refusal(db, chk)

\* PUT /:connectionId: the body has relationshipStatus, message, endDate
UpdateCheck(db, connectionId, userId) ==
    IF FindById(db, connectionId) = {} THEN "NotFound"
    ELSE LET connection == Doc(db, connectionId)
             isPartOfConnection ==
                 userId \in {connection.requestorUserId, connection.recipientUserId,
                             connection.careerAgentId, connection.candidateId}
         IN  IF ~isPartOfConnection THEN "Forbidden" ELSE "pass"

UpdateEdit(connection, relationshipStatus, message, endDate) ==
    [connection EXCEPT
        !.relationshipStatus = IF relationshipStatus # NULL THEN relationshipStatus ELSE @,
        !.message = IF message # NULL THEN message ELSE @,
        !.endDate = IF endDate # NoDate THEN endDate ELSE @]

UpdateOutcome(db, connectionId, userId, relationshipStatus, message, endDate) ==
    LET chk == UpdateCheck(db, connectionId, userId)
    IN  IF chk = "pass"
        THEN SaveOr500(db, Doc(db, connectionId),
                       UpdateEdit(Doc(db, connectionId), relationshipStatus, message, endDate))
        ELSE Refusal(db, chk)

(***************************************************************************)
(* models/CareerAgent.js and routes/careerAgent copy.js: the career-agent  *)
(* router.  A new document takes the _id n + 1, n the ids handed out.      *)
(***************************************************************************)
CareerAgentDoc(id, agent, cand, st, msg, t) ==
    [_id |-> id, careerAgentId |-> agent, candidateId |-> cand,
     relationshipStatus |-> st,
     startDate |-> t,            \* default: Date.now
     endDate |-> NoDate,         \* default: null
     message |-> msg]

CareerAgentValid(d) ==
    /\ d.careerAgentId # NULL
    /\ d.candidateId # NULL
    /\ d.relationshipStatus \in Statuses

\* unique partial index {candidateId, relationshipStatus} on active documents
CareerAgentIndex(db) ==
    \A d1 \in db : \A d2 \in db :
        (/\ d1._id # d2._id
         /\ d1.relationshipStatus = "active" /\ d2.relationshipStatus = "active")
        => d1.candidateId # d2.candidateId

\* CareerAgent.findOne({candidateId, relationshipStatus: 'active'})
existingActiveRelationship(db, candidateId) ==
    {d \in db : d.candidateId = candidateId /\ d.relationshipStatus = "active"}

\* CareerAgent.findOne({careerAgentId, candidateId, relationshipStatus: {$in: sts}})
existingPendingRelationship(db, careerAgentId, candidateId, sts) ==
    {d \in db : /\ d.careerAgentId = careerAgentId
                /\ d.candidateId = candidateId
                /\ d.relationshipStatus \in sts}

EmptyMessage == ""
RequestMessage == "User has requested you to be their career agent"
ProposalMessage == "A career agent has proposed to mentor you"

CAInsert(db, doc, dupCode, dupRes) ==
    IF ~CareerAgentValid(doc) THEN Resp(db, 500, "InternalError", 0)
    ELSE IF ~CareerAgentIndex(db \cup {doc}) THEN Resp(db, dupCode, dupRes, 0)
    ELSE Resp(db \cup {doc}, 201, "OK", doc._id)

CAChecks(db, careerAgentId, candidateId, lookedUp, sts) ==
    IF careerAgentId = candidateId THEN "ValidationError"
    ELSE IF \E u \in lookedUp : u \notin Profiles THEN "NotFound"
    ELSE IF existingActiveRelationship(db, candidateId) # {} THEN "Conflict"
    ELSE IF existingPendingRelationship(db, careerAgentId, candidateId, sts) # {}
         THEN "Conflict"
    ELSE "pass"

\* POST /: the body has careerAgentId, candidateId, message, relationshipStatus;
\* its catch answers a duplicate key with 400
CACreateOutcome(db, n, b, t) ==
    LET chk == IF b.careerAgentId = NULL \/ b.candidateId = NULL THEN "ValidationError"
               ELSE CAChecks(db, b.careerAgentId, b.candidateId,
                             {b.careerAgentId, b.candidateId}, pendingOrProposed)
    IN  IF chk # "pass" THEN Refusal(db, chk)
        ELSE CAInsert(db,
                CareerAgentDoc(n + 1, b.careerAgentId, b.candidateId,
                    IF b.relationshipStatus = NULL THEN "active" ELSE b.relationshipStatus,
                    IF b.message = NULL THEN EmptyMessage ELSE b.message, t),
                400, "Conflict")

\* the stored relationships the 400 of POST / identifies: the active one of the
\* candidate by existingCareerAgentId, or else the pending or proposed one of
\* the pair by existingRelationshipId
CACreateBlocking(db, b) ==
    IF existingActiveRelationship(db, b.candidateId) # {}
    THEN existingActiveRelationship(db, b.candidateId)
    ELSE existingPendingRelationship(db, b.careerAgentId, b.candidateId, pendingOrProposed)

\* POST /request: the caller is the candidate
CARequestOutcome(db, n, candidateId, careerAgentId, message, t) ==
    LET chk == CAChecks(db, careerAgentId, candidateId, {careerAgentId}, {"pending"})
    IN  IF chk # "pass" THEN Refusal(db, chk)
        ELSE CAInsert(db,
                CareerAgentDoc(n + 1, careerAgentId, candidateId, "pending",
                    IF message = NULL THEN RequestMessage ELSE message, t),
                500, "InternalError")

\* POST /propose: the caller is the career agent
CAProposeOutcome(db, n, careerAgentId, candidateId, message, t) ==
    LET chk == CAChecks(db, careerAgentId, candidateId, {candidateId}, pendingOrProposed)
    IN  IF chk # "pass" THEN Refusal(db, chk)
        ELSE CAInsert(db,
                CareerAgentDoc(n + 1, careerAgentId, candidateId, "proposed",
                    IF message = NULL THEN ProposalMessage ELSE message, t),
                500, "InternalError")

\* accept and reject: findOne({_id, relationshipStatus: {$in: ['pending', 'proposed']}}),
\* then isAuthorized
CATransitionCheck(db, relationshipId, userId) ==
    IF {d \in FindById(db, relationshipId) : d.relationshipStatus \in pendingOrProposed} = {}
    THEN "NotFound"
    ELSE LET relationship == Doc(db, relationshipId)
             isAuthorized ==
                 IF relationship.relationshipStatus = "pending"
                 THEN relationship.careerAgentId = userId
                 ELSE relationship.candidateId = userId
         IN  IF ~isAuthorized THEN "Forbidden" ELSE "pass"

CASave(db, doc) ==
    IF ~CareerAgentValid(doc) \/ ~CareerAgentIndex(Replace(db, doc))
    THEN Resp(db, 500, "InternalError", doc._id)
    ELSE Resp(Replace(db, doc), 200, "OK", doc._id)

\* PUT /:relationshipId/accept
CAAcceptOutcome(db, relationshipId, userId, t) ==
    LET chk == CATransitionCheck(db, relationshipId, userId)
    IN  IF chk # "pass" THEN Refusal(db, chk)
        ELSE CASave(db, [Doc(db, relationshipId) EXCEPT
                            !.relationshipStatus = "active", !.startDate = t])

\* PUT /:relationshipId/reject
CARejectOutcome(db, relationshipId, userId, message, t) ==
    LET chk == CATransitionCheck(db, relationshipId, userId)
    IN  IF chk # "pass" THEN Refusal(db, chk)
        ELSE CASave(db, [Doc(db, relationshipId) EXCEPT
                            !.relationshipStatus = "inactive",
                            !.endDate = t,
                            !.message = IF message # NULL THEN message ELSE @])

\* PUT /:relationshipId: findOneAndUpdate({_id}, updateData); updateData is the
\* body, a record of the fields it carries
CAUpdateData(updateData, t) ==
    IF /\ "relationshipStatus" \in DOMAIN updateData
       /\ updateData.relationshipStatus = "inactive"
       /\ ("endDate" \notin DOMAIN updateData \/ updateData.endDate = NoDate)
    THEN [f \in DOMAIN updateData \cup {"endDate"} |->
            IF f = "endDate" THEN t ELSE updateData[f]]
    ELSE updateData

CAUpdateOutcome(db, relationshipId, updateData, t) ==
    IF FindById(db, relationshipId) = {} THEN Resp(db, 404, "NotFound", relationshipId)
    ELSE LET set == CAUpdateData(updateData, t)
             relationship == Doc(db, relationshipId)
         IN  CASave(db, [f \in DOMAIN relationship |->
                            IF f \in DOMAIN set THEN set[f] ELSE relationship[f]])

\* a delete that removes the relationships of the candidate of the one named
CADeleteOfCandidate(db, relationshipId) ==
    IF FindById(db, relationshipId) = {} THEN Resp(db, 404, "NotFound", relationshipId)
    ELSE Resp({d \in db : d.candidateId # Doc(db, relationshipId).candidateId},
              200, "OK", relationshipId)

\* DELETE /:relationshipId
CADeleteOutcome(db, relationshipId) ==
    IF FindById(db, relationshipId) = {} THEN Resp(db, 404, "NotFound", relationshipId)
    ELSE Resp({d \in db : d._id # relationshipId}, 200, "OK", relationshipId)

(***************************************************************************)
(* routes/conversations.js: the views.  A view answers with the rows it    *)
(* found and writes to no collection.  Every store of the model holds      *)
(* fewer rows than the default limit of 50, so $limit cuts nothing.        *)
(***************************************************************************)
View(code, res, rows) == [code |-> code, res |-> res, rows |-> rows]

\* Connection.findOne({connectionType: 'careerAgent', careerAgentId, candidateId})
\* of GET /careeragent/relationship: the filter names no status
CareerAgentRelationship(db, careerAgentId, forUserId) ==
    {d \in db : /\ d.connectionType = "careerAgent"
                /\ d.careerAgentId = careerAgentId
                /\ d.candidateId = forUserId}

\* GET /careeragent/relationship?forUserId: the caller is the career agent;
\* findOne answers with the first document in the order of insertion
CareerAgentRelationshipOutcome(db, careerAgentId, forUserId) ==
    LET found == CareerAgentRelationship(db, careerAgentId, forUserId)
    IN  IF forUserId = NULL THEN View(400, "ValidationError", {})
        ELSE IF found = {} THEN View(404, "NotFound", {})
        ELSE View(200, "OK", {CHOOSE d \in found : \A e \in found : d._id <= e._id})

\* the proposals received found by recipientUserId, whatever the kind
ProposalsReceivedByRecipient(db, userId) ==
    View(200, "OK", {d \in db : /\ d.recipientUserId = userId
                                /\ d.relationshipStatus = "proposed"})

\* GET /proposals/received: Connection.find({candidateId, connectionType, relationshipStatus})
ProposalsReceivedOutcome(db, userId) ==
    View(200, "OK", {d \in db : /\ d.candidateId = userId
                                /\ d.connectionType = "careerAgent"
                                /\ d.relationshipStatus = "proposed"})

\* GET /proposals/sent: Connection.find({careerAgentId, connectionType, relationshipStatus})
ProposalsSentOutcome(db, userId) ==
    View(200, "OK", {d \in db : /\ d.careerAgentId = userId
                                /\ d.connectionType = "careerAgent"
                                /\ d.relationshipStatus = "proposed"})

\* the ...(connectionType && { connectionType }) of a $match
OfType(d, connectionType) ==
    connectionType # NULL => d.connectionType = connectionType

\* GET /requests/received, stage 1
ReceivedMatch(db, userId, connectionType) ==
    {d \in db :
        /\ \/ /\ d.recipientUserId = userId
              /\ d.connectionType = "friend"
              /\ d.relationshipStatus \in {"requested", "pending"}
           \/ /\ d.candidateId = userId
              /\ d.connectionType = "careerAgent"
              /\ d.relationshipStatus \in {"requested", "pending"}
           \/ /\ d.recipientUserId = userId
              /\ d.connectionType = "careerAgent"
              /\ d.relationshipStatus \in {"proposed", "pending"}
        /\ OfType(d, connectionType)}

\* GET /requests/received, stage 2: the $switch of otherUserId
ReceivedOther(d, userId) ==
    IF d.connectionType = "friend" /\ d.recipientUserId = userId THEN d.requestorUserId
    ELSE IF d.connectionType = "careerAgent" /\ d.candidateId = userId THEN d.careerAgentId
    ELSE IF d.connectionType = "careerAgent" /\ d.recipientUserId = userId
         THEN d.requestorUserId
    ELSE NULL

\* GET /requests/received, stage 2: the $switch of requestType
ReceivedType(d, userId) ==
    IF d.connectionType = "friend" /\ d.recipientUserId = userId THEN "friend_request"
    ELSE IF d.connectionType = "careerAgent" /\ d.candidateId = userId
         THEN "career_agent_request"
    ELSE IF d.connectionType = "careerAgent" /\ d.recipientUserId = userId
         THEN "career_agent_proposal"
    ELSE "unknown"

\* stage 3 with one group for each request
ReceivedGroupPerRequest(matched, userId) ==
    {[userId |-> ReceivedOther(d, userId),
      requests |-> {d._id},
      requestTypes |-> {ReceivedType(d, userId)},
      connectionTypes |-> {d.connectionType}] : d \in matched}

\* GET /requests/received, stage 3: $group by otherUserId; stage 7 names the
\* _id of a group userId
ReceivedGroup(matched, userId) ==
    {[userId |-> o,
      requests |-> {d._id : d \in {m \in matched : ReceivedOther(m, userId) = o}},
      requestTypes |-> {ReceivedType(d, userId) :
                            d \in {m \in matched : ReceivedOther(m, userId) = o}},
      connectionTypes |-> {d.connectionType :
                            d \in {m \in matched : ReceivedOther(m, userId) = o}}] :
        o \in {ReceivedOther(d, userId) : d \in matched}}

RequestsReceivedOutcome(db, userId, connectionType) ==
    View(200, "OK", ReceivedGroup(ReceivedMatch(db, userId, connectionType), userId))

\* GET /requests/sent, stage 1
SentMatch(db, userId, connectionType) ==
    {d \in db :
        /\ \/ /\ d.requestorUserId = userId
              /\ d.connectionType = "friend"
              /\ d.relationshipStatus \in {"requested", "pending"}
           \/ /\ d.careerAgentId = userId
              /\ d.connectionType = "careerAgent"
              /\ d.relationshipStatus \in {"requested", "pending"}
           \/ /\ d.requestorUserId = userId
              /\ d.connectionType = "careerAgent"
              /\ d.relationshipStatus \in {"proposed", "pending"}
        /\ OfType(d, connectionType)}

\* GET /requests/sent, stage 2: the $switch of otherUserId
SentOther(d, userId) ==
    IF d.connectionType = "friend" /\ d.requestorUserId = userId THEN d.recipientUserId
    ELSE IF d.connectionType = "careerAgent" /\ d.careerAgentId = userId THEN d.candidateId
    ELSE IF d.connectionType = "careerAgent" /\ d.requestorUserId = userId
         THEN d.recipientUserId
    ELSE NULL

\* GET /requests/sent, stage 2: the $switch of requestType
SentType(d, userId) ==
    IF d.connectionType = "friend" /\ d.requestorUserId = userId THEN "friend_request"
    ELSE IF d.connectionType = "careerAgent" /\ d.careerAgentId = userId
         THEN "career_agent_request"
    ELSE IF d.connectionType = "careerAgent" /\ d.requestorUserId = userId
         THEN "career_agent_proposal"
    ELSE "unknown"

\* GET /requests/sent, stage 3: $group by otherUserId
SentGroup(matched, userId) ==
    {[userId |-> o,
      requests |-> {d._id : d \in {m \in matched : SentOther(m, userId) = o}},
      requestTypes |-> {SentType(d, userId) :
                            d \in {m \in matched : SentOther(m, userId) = o}},
      connectionTypes |-> {d.connectionType :
                            d \in {m \in matched : SentOther(m, userId) = o}}] :
        o \in {SentOther(d, userId) : d \in matched}}

RequestsSentOutcome(db, userId, connectionType) ==
    View(200, "OK", SentGroup(SentMatch(db, userId, connectionType), userId))

\* GET /connected, stage 1; status is 'active' when the query names none
ConnectedMatch(db, userId, status, connectionType) ==
    {d \in db :
        /\ userId \in {d.requestorUserId, d.recipientUserId, d.careerAgentId, d.candidateId}
        /\ d.relationshipStatus = (IF status = NULL THEN "active" ELSE status)
        /\ OfType(d, connectionType)}

\* GET /connected, stage 2: the $switch of otherUserId
ConnectedOther(d, userId) ==
    IF d.requestorUserId = userId THEN d.recipientUserId
    ELSE IF d.recipientUserId = userId THEN d.requestorUserId
    ELSE IF d.careerAgentId = userId THEN d.candidateId
    ELSE IF d.candidateId = userId THEN d.careerAgentId
    ELSE NULL

\* GET /connected, stage 2: the $switch of connectionRole
ConnectionRole(d, userId) ==
    IF d.requestorUserId = userId THEN "requestor"
    ELSE IF d.recipientUserId = userId THEN "recipient"
    ELSE IF d.careerAgentId = userId THEN "careerAgent"
    ELSE IF d.candidateId = userId THEN "candidate"
    ELSE "unknown"

\* GET /connected, stage 3: $group by otherUserId
ConnectedGroup(matched, userId) ==
    {[userId |-> o,
      connections |-> {d._id : d \in {m \in matched : ConnectedOther(m, userId) = o}},
      connectionTypes |-> {d.connectionType :
                            d \in {m \in matched : ConnectedOther(m, userId) = o}},
      roles |-> {ConnectionRole(d, userId) :
                            d \in {m \in matched : ConnectedOther(m, userId) = o}}] :
        o \in {ConnectedOther(d, userId) : d \in matched}}

ConnectedOutcome(db, userId, status, connectionType) ==
    View(200, "OK", ConnectedGroup(ConnectedMatch(db, userId, status, connectionType),
                                   userId))

\* GET /potentialcontact: the $expr of stage 2 holds $nin, a query operator
\* that is no aggregation expression; the server refuses the pipeline,
\* aggregate() rejects and the catch answers 500
PotentialContactOutcome(db, userId) == View(500, "InternalError", {})

\* GET /potentialcontact of routes/connections copy.js: the profiles of all
\* but the caller and the people of the caller's connections, of any status
PotentialContactCopyOutcome(db, userId) ==
    LET existingConnections ==
            {d \in db : userId \in {d.requestorUserId, d.recipientUserId,
                                    d.careerAgentId, d.candidateId}}
        connectedUserIds ==
            UNION {{d.requestorUserId, d.recipientUserId, d.careerAgentId, d.candidateId} :
                        d \in existingConnections}
        excludeUserIds == connectedUserIds \cup {userId}
    IN  View(200, "OK", Profiles \ excludeUserIds)

(***************************************************************************)
(* The guard of the cover letters: a middleware of another service that    *)
(* asks GET /careeragent/relationship with the token of its caller.        *)
(***************************************************************************)
Thrown == [thrown |-> TRUE]

\* axios.get(...).data: the body { success, data } of a 200; axios rejects on
\* any other status
checkCareerAgentRelationship(db, userId, forUserId) ==
    LET v == CareerAgentRelationshipOutcome(db, userId, forUserId)
    IN  IF v.code = 200 THEN [success |-> TRUE, data |-> v.rows] ELSE Thrown

\* fromUserId and forUserId come from the body of a POST or PUT, and are both
\* the userId of the path of a GET; "next" lets the request proceed
verifyCoverLetterAccess(db, userId, fromUserId, forUserId) ==
    IF userId # fromUserId THEN "Forbidden"
    ELSE IF fromUserId = forUserId THEN "next"
    ELSE LET relationship == checkCareerAgentRelationship(db, userId, forUserId)
         IN  IF relationship = Thrown THEN "Forbidden"
             ELSE IF "isCareerAgent" \in DOMAIN relationship /\ relationship.isCareerAgent
                  THEN "next"
             ELSE "Forbidden"

(***************************************************************************)
(* The requests.  One router serves the relationship API of a deployment;  *)
(* a request runs its handler on that router's collection and leaves the   *)
(* call and its response in `last`.                                        *)
(***************************************************************************)
Call(op, o, user, peer) ==
    [op |-> op, id |-> o.id, user |-> user, peer |-> peer, res |-> o.res, code |-> o.code]

NoCall == [op |-> "none", id |-> 0, user |-> NULL, peer |-> NULL, res |-> "OK", code |-> 0]

OnConnections(o, call) ==
    /\ router = "connections"
    /\ connections' = o.db
    /\ last' = call
    /\ UNCHANGED <<careerAgents, caIds, router, calls, verificationVars>>

ConnCreate(b, t) ==
    LET o == CreateOutcome(connections, b, t)
    IN  OnConnections(o, Call("createDirect", o, b.requestorUserId, b.recipientUserId))

ConnRequest(userId, recipientUserId, connectionType, message, t) ==
    LET o == RequestOutcome(connections, userId, recipientUserId, connectionType, message, t)
    IN  OnConnections(o, Call("request", o, userId, recipientUserId))

ConnPropose(userId, candidateUserId, message, t) ==
    LET o == ProposeOutcome(connections, userId, candidateUserId, message, t)
    IN  OnConnections(o, Call("propose", o, userId, candidateUserId))

\* a request on a relationship is logged with the id it names
ConnAccept(userId, connectionId, t) ==
    LET o == [AcceptOutcome(connections, connectionId, userId, t) EXCEPT !.id = connectionId]
    IN  OnConnections(o, Call("accept", o, userId, NULL))

ConnReject(userId, connectionId, message) ==
    LET o == [RejectOutcome(connections, connectionId, userId, message)
                EXCEPT !.id = connectionId]
    IN  OnConnections(o, Call("reject", o, userId, NULL))

ConnUpdate(userId, connectionId, relationshipStatus, message, endDate) ==
    LET o == [UpdateOutcome(connections, connectionId, userId, relationshipStatus,
                            message, endDate) EXCEPT !.id = connectionId]
    IN  OnConnections(o, Call("update", o, userId, NULL))

OnCareerAgents(o, call) ==
    /\ router = "careerAgent"
    /\ careerAgents' = o.db
    /\ caIds' = IF call.op \in {"createDirect", "request", "propose"} /\ o.res = "OK"
                THEN o.id ELSE caIds
    /\ last' = call
    /\ UNCHANGED <<connections, router, calls, verificationVars>>

CACreate(b, t) ==
    LET o == CACreateOutcome(careerAgents, caIds, b, t)
    IN  OnCareerAgents(o, Call("createDirect", o, b.careerAgentId, b.candidateId))

CARequest(userId, careerAgentId, message, t) ==
    LET o == CARequestOutcome(careerAgents, caIds, userId, careerAgentId, message, t)
    IN  OnCareerAgents(o, Call("request", o, userId, careerAgentId))

CAPropose(userId, candidateId, message, t) ==
    LET o == CAProposeOutcome(careerAgents, caIds, userId, candidateId, message, t)
    IN  OnCareerAgents(o, Call("propose", o, userId, candidateId))

CAAccept(userId, relationshipId, t) ==
    LET o == [CAAcceptOutcome(careerAgents, relationshipId, userId, t)
                EXCEPT !.id = relationshipId]
    IN  OnCareerAgents(o, Call("accept", o, userId, NULL))

CAReject(userId, relationshipId, message, t) ==
    LET o == [CARejectOutcome(careerAgents, relationshipId, userId, message, t)
                EXCEPT !.id = relationshipId]
    IN  OnCareerAgents(o, Call("reject", o, userId, NULL))

CAUpdate(userId, relationshipId, updateData, t) ==
    LET o == [CAUpdateOutcome(careerAgents, relationshipId, updateData, t)
                EXCEPT !.id = relationshipId]
    IN  OnCareerAgents(o, Call("update", o, userId, NULL))

CADelete(userId, relationshipId) ==
    LET o == CADeleteOutcome(careerAgents, relationshipId)
    IN  OnCareerAgents(o, Call("delete", o, userId, NULL))

Init ==
    /\ connections = {}
    /\ careerAgents = {}
    /\ caIds = 0
    /\ router \in {"connections", "careerAgent"}
    /\ last = NoCall
    /\ calls = {}
    /\ verifications = {}
    /\ verificationIds = 0
    /\ clock = 0
    /\ verifying = {}
    /\ compared = [i \in 1..MaxRecords |-> 0]

(***************************************************************************)
(* Requests are served one at a time, drawn from the domain D of a         *)
(* specification: the bodies of POST /, who asks whom, who acts on a       *)
(* relationship, and what update carries.                                  *)
(***************************************************************************)
Within(cap) ==
    /\ Cardinality(connections') <= cap
    /\ caIds' <= cap

Engine(D) ==
    \/ \E b \in D.direct, t \in Times : ConnCreate(b, t) /\ Within(D.cap)
    \/ \E p \in D.asks, k \in D.kinds, t \in Times :
            ConnRequest(p[1], p[2], k, D.hello, t) /\ Within(D.cap)
    \/ \E p \in D.asks, t \in Times : ConnPropose(p[1], p[2], D.hello, t) /\ Within(D.cap)
    \/ \E u \in Users, id \in 1..D.cap, t \in Times : ConnAccept(u, id, t)
    \/ \E u \in Users, id \in 1..D.cap, m \in D.notes : ConnReject(u, id, m)
    \/ \E u \in Users, id \in 1..D.cap, st \in Statuses \cup {NULL}, m \in D.notes,
          e \in D.ends : ConnUpdate(u, id, st, m, e)
    \/ \E b \in D.caDirect, t \in Times : CACreate(b, t) /\ Within(D.cap)
    \/ \E p \in D.asks, t \in Times : CARequest(p[2], p[1], D.hello, t) /\ Within(D.cap)
    \/ \E p \in D.asks, t \in Times : CAPropose(p[1], p[2], D.hello, t) /\ Within(D.cap)
    \/ \E u \in Users, id \in 1..D.cap, t \in Times : CAAccept(u, id, t)
    \/ \E u \in Users, id \in 1..D.cap, m \in D.notes, t \in Times : CAReject(u, id, m, t)
    \/ \E u \in Users, id \in 1..D.cap, d \in D.updates, t \in Times : CAUpdate(u, id, d, t)
    \/ \E u \in Users, id \in 1..D.cap : CADelete(u, id)

\* the statuses a body of POST / carries, NULL when it carries none
StartStatuses == {NULL, "active", "requested", "rejected"}

Hello == "hello"

\* bodies of POST / of the connections router for the pairs ps: the nominal
\* requestor and recipient of a careerAgent connection are its agent and
\* candidate, in either order
FriendBodies(ps) ==
    {[connectionType |-> "friend", careerAgentId |-> NULL, candidateId |-> NULL,
      requestorUserId |-> p[1], recipientUserId |-> p[2],
      relationshipStatus |-> st, message |-> Hello] : p \in ps, st \in StartStatuses}

AgentBodies(ps) ==
    {[connectionType |-> "careerAgent",
      careerAgentId |-> IF agentAsks THEN p[1] ELSE p[2],
      candidateId |-> IF agentAsks THEN p[2] ELSE p[1],
      requestorUserId |-> p[1], recipientUserId |-> p[2],
      relationshipStatus |-> st, message |-> Hello] :
        p \in ps, agentAsks \in BOOLEAN, st \in StartStatuses}

\* bodies of POST / of the career-agent router
CABodies(ps) ==
    {[careerAgentId |-> p[1], candidateId |-> p[2], relationshipStatus |-> st,
      message |-> Hello] : p \in ps, st \in StartStatuses}

\* bodies of PUT /:relationshipId of the career-agent router
UpdateBodies ==
    {[relationshipStatus |-> st] : st \in Statuses}
    \cup {[endDate |-> NoDate], [message |-> "note"], [careerAgentId |-> "u3"]}

(***************************************************************************)
(* Spec: the life of one relationship, between any two of the users, of a  *)
(* user with themselves or with a person without a profile, under every    *)
(* request any user can send.                                              *)
(***************************************************************************)
OnePairs == {<<"u1", "u2">>, <<"u2", "u1">>, <<"u1", "u1">>}

\* a body of POST / that names u3, neither the agent nor the candidate, as the
\* requestor of a careerAgent connection
OutsiderBody ==
    [connectionType |-> "careerAgent", careerAgentId |-> "u1", candidateId |-> "u2",
     requestorUserId |-> "u3", recipientUserId |-> "u2",
     relationshipStatus |-> NULL, message |-> Hello]

One ==
    [direct |-> FriendBodies(OnePairs) \cup AgentBodies(OnePairs) \cup {OutsiderBody},
     caDirect |-> CABodies(OnePairs),
     asks |-> OnePairs \cup {<<"u1", Ghost>>, <<Ghost, "u1">>},
     kinds |-> Kinds,
     hello |-> Hello,
     notes |-> {NULL, "note"},
     ends |-> {NoDate} \cup Times,
     updates |-> UpdateBodies,
     cap |-> MaxOpen]

Next == Engine(One)

Spec == Init /\ [][Next]_vars

(***************************************************************************)
(* SpecExclusive: two agents, u1 and u3, and one candidate, u2, who may    *)
(* ask back.                                                               *)
(***************************************************************************)
TwoPairs == {<<"u1", "u2">>, <<"u3", "u2">>}

Two ==
    [direct |-> AgentBodies(TwoPairs),
     caDirect |-> CABodies(TwoPairs),
     asks |-> TwoPairs \cup {<<"u2", "u1">>},
     kinds |-> {"careerAgent"},
     hello |-> Hello,
     notes |-> {NULL},
     ends |-> {NoDate},
     updates |-> {[relationshipStatus |-> st] : st \in Statuses},
     cap |-> MaxDocs]

NextExclusive == Engine(Two)

SpecExclusive == Init /\ [][NextExclusive]_vars

(***************************************************************************)
(* SpecViews: u1 and u2 linked by up to two relationships, one of each     *)
(* kind, bodies of POST / that leave out a party, and the views of the     *)
(* connections router asked by every user.  A view leaves its answer in    *)
(* `last`.                                                                 *)
(***************************************************************************)
ViewOps ==
    {"connected", "requestsReceived", "requestsSent", "proposalsReceived",
     "proposalsSent", "potentialContact", "potentialContactCopy", "relationship"}

\* a view that empties the collection it reads
LookupWriting(op, userId, peer, v) ==
    /\ router = "connections"
    /\ connections' = {}
    /\ last' = [op |-> op, id |-> 0, user |-> userId, peer |-> peer,
                res |-> v.res, code |-> v.code]
    /\ UNCHANGED <<careerAgents, caIds, router, calls, verificationVars>>

\* the handlers of the views call find, findOne and aggregate only
Lookup(op, userId, peer, v) ==
    /\ router = "connections"
    /\ last' = [op |-> op, id |-> 0, user |-> userId, peer |-> peer,
                res |-> v.res, code |-> v.code]
    /\ UNCHANGED <<connections, careerAgents, caIds, router, calls, verificationVars>>

GetConnected(userId, status, connectionType) ==
    Lookup("connected", userId, NULL,
           ConnectedOutcome(connections, userId, status, connectionType))

GetRequestsReceived(userId, connectionType) ==
    Lookup("requestsReceived", userId, NULL,
           RequestsReceivedOutcome(connections, userId, connectionType))

GetRequestsSent(userId, connectionType) ==
    Lookup("requestsSent", userId, NULL,
           RequestsSentOutcome(connections, userId, connectionType))

GetProposalsReceived(userId) ==
    Lookup("proposalsReceived", userId, NULL, ProposalsReceivedOutcome(connections, userId))

GetProposalsSent(userId) ==
    Lookup("proposalsSent", userId, NULL, ProposalsSentOutcome(connections, userId))

GetPotentialContact(userId) ==
    Lookup("potentialContact", userId, NULL, PotentialContactOutcome(connections, userId))

GetPotentialContactCopy(userId) ==
    Lookup("potentialContactCopy", userId, NULL,
           PotentialContactCopyOutcome(connections, userId))

GetCareerAgentRelationship(userId, forUserId) ==
    Lookup("relationship", userId, forUserId,
           CareerAgentRelationshipOutcome(connections, userId, forUserId))

ViewPairs == {<<"u1", "u2">>}

\* the bodies bs of POST / of the connections router with one field left out
Omitting(bs) ==
    UNION {{[b EXCEPT !.requestorUserId = NULL], [b EXCEPT !.recipientUserId = NULL],
            [b EXCEPT !.careerAgentId = NULL], [b EXCEPT !.candidateId = NULL]} : b \in bs}

\* the bodies bs of POST / of the career-agent router with one party left out
CAOmitting(bs) ==
    UNION {{[b EXCEPT !.careerAgentId = NULL], [b EXCEPT !.candidateId = NULL]} : b \in bs}

\* .send({})
EmptyBody ==
    [connectionType |-> NULL, careerAgentId |-> NULL, candidateId |-> NULL,
     requestorUserId |-> NULL, recipientUserId |-> NULL,
     relationshipStatus |-> NULL, message |-> NULL]

CAEmptyBody ==
    [careerAgentId |-> NULL, candidateId |-> NULL, relationshipStatus |-> NULL,
     message |-> NULL]

ViewBodies ==
    {b \in FriendBodies(ViewPairs) \cup AgentBodies(ViewPairs) :
        b.relationshipStatus \in {NULL, "active"}}

Three ==
    [direct |-> ViewBodies \cup Omitting(ViewBodies) \cup {EmptyBody},
     caDirect |-> CABodies(ViewPairs) \cup CAOmitting(CABodies(ViewPairs))
                    \cup {CAEmptyBody},
     asks |-> ViewPairs,
     kinds |-> Kinds,
     hello |-> Hello,
     notes |-> {NULL},
     ends |-> {NoDate},
     updates |-> {[relationshipStatus |-> st] : st \in Statuses},
     cap |-> MaxDocs]

Views ==
    \/ \E u \in Users, st \in {NULL, "inactive"}, k \in Kinds \cup {NULL} :
            GetConnected(u, st, k)
    \/ \E u \in Users, k \in Kinds \cup {NULL} : GetRequestsReceived(u, k)
    \/ \E u \in Users, k \in Kinds \cup {NULL} : GetRequestsSent(u, k)
    \/ \E u \in Users : GetProposalsReceived(u)
    \/ \E u \in Users : GetProposalsSent(u)
    \/ \E u \in Users : GetPotentialContact(u)
    \/ \E u \in Users : GetPotentialContactCopy(u)
    \/ \E u \in Users, forUserId \in Users \cup {NULL} :
            GetCareerAgentRelationship(u, forUserId)

NextViews == Engine(Three) \/ Views

SpecViews == Init /\ [][NextViews]_vars

(***************************************************************************)
(* SpecRace: the connections router serving requests concurrently.  A      *)
(* handler gives up the event loop at every await: between the reads that  *)
(* end in its check (findOne, findById) and its save() any step of another *)
(* request may run.  `calls` holds the requests that have been received:   *)
(* those between check and save with the document they loaded, those       *)
(* answered with their response.                                           *)
(***************************************************************************)
RaceCall(op, user, peer, kind, id, n) ==
    [op |-> op, user |-> user, peer |-> peer, kind |-> kind, id |-> id, n |-> n]

\* two agents propose to u2, who accepts both; u1 and u2 ask each other to be
\* friends, u1 twice
RaceCalls ==
    {RaceCall("propose", "u1", "u2", "careerAgent", 0, 1),
     RaceCall("propose", "u3", "u2", "careerAgent", 0, 1),
     RaceCall("accept", "u2", NULL, NULL, 1, 1),
     RaceCall("accept", "u2", NULL, NULL, 2, 1),
     RaceCall("request", "u1", "u2", "friend", 0, 1),
     RaceCall("request", "u1", "u2", "friend", 0, 2),
     RaceCall("request", "u2", "u1", "friend", 0, 1)}

Received == {x.call : x \in calls}

Pending(c) == {x \in calls : x.call = c /\ x.pc = "save"}

Answer(c) == {x \in calls : x.call = c /\ x.pc = "done"}

CallCheck(db, c) ==
    IF c.op = "propose" THEN ProposeCheck(db, c.user, c.peer)
    ELSE IF c.op = "request" THEN RequestCheck(db, c.user, c.peer, c.kind)
    ELSE AcceptCheck(db, c.id, c.user)

CallSave(db, c, loaded, t) ==
    IF c.op = "propose" THEN ProposeSave(db, c.user, c.peer, Hello, t)
    ELSE IF c.op = "request" THEN RequestSave(db, c.user, c.peer, c.kind, Hello, t)
    ELSE LET connection == CHOOSE d \in loaded : TRUE
         IN  SaveOr500(db, connection, AcceptEdit(connection, t))

\* the handler runs up to its save(), or answers
RaceCheck(c) ==
    /\ router = "connections"
    /\ c \notin Received
    /\ LET chk == CallCheck(connections, c)
       IN  calls' = calls \cup
              {IF chk = "pass"
               THEN [call |-> c, pc |-> "save", res |-> "none", code |-> 0,
                     loaded |-> IF c.op = "accept" THEN FindById(connections, c.id) ELSE {}]
               ELSE [call |-> c, pc |-> "done", res |-> chk,
                     code |-> Refusal(connections, chk).code, loaded |-> {}]}
    /\ UNCHANGED <<connections, careerAgents, caIds, router, last, verificationVars>>

\* save() and the response
RaceSave(c, t) ==
    /\ router = "connections"
    /\ \E x \in Pending(c) :
          LET o == CallSave(connections, c, x.loaded, t)
          IN  /\ connections' = o.db
              /\ calls' = (calls \ {x}) \cup
                    {[call |-> c, pc |-> "done", res |-> o.res, code |-> o.code,
                      loaded |-> {}]}
    /\ UNCHANGED <<careerAgents, caIds, router, last, verificationVars>>

NextRace ==
    \/ \E c \in RaceCalls : RaceCheck(c)
    \/ \E c \in RaceCalls, t \in Times : RaceSave(c, t)

SpecRace == Init /\ [][NextRace]_vars

(***************************************************************************)
(* SpecVerify: the verification router (routes/verification.js) over the   *)
(* Verification collection.  A verify-code call reads the record with      *)
(* findOne, decides, and writes it back with save(); between the two other *)
(* calls are served.  save() writes the paths the call modified.           *)
(***************************************************************************)
VerificationCodes == {"123456", "654321"}
Malformed == "12345"
SubmittedCodes == VerificationCodes \cup {Malformed}

\* expiresAt defaults to ten minutes from now: one tick of the clock
Lifetime == 1

\* new Verification({...}): the schema's defaults
NewVerification(id, code, now) ==
    [verificationId |-> id, verificationCode |-> code, status |-> "pending",
     attempts |-> 0, expiresAt |-> now + Lifetime]

FindVerification(db, id) == {d \in db : d.verificationId = id}

\* pre('save'): a pending document past its expiresAt is saved as expired
PreSave(w, now) ==
    IF w.doc.expiresAt < now /\ w.doc.status = "pending"
    THEN [w EXCEPT !.doc = [w.doc EXCEPT !.status = "expired"],
                   !.modified = w.modified \cup {"status"}]
    ELSE w

\* save(): $set of the modified paths on the stored document
SaveModified(stored, w) ==
    [stored EXCEPT !.status = IF "status" \in w.modified THEN w.doc.status ELSE @,
                   !.attempts = IF "attempts" \in w.modified THEN w.doc.attempts ELSE @]

\* validateVerifyCode: six digits
validateVerifyCode(code) == code \in VerificationCodes

\* what the handler decides on the record it loaded: the response, or the
\* document to save and the response that follows the save
VerifyCodeDecision(db, id, code, now) ==
    LET found == FindVerification(db, id)
    IN  IF found = {} THEN [save |-> FALSE, res |-> "NotFound", code |-> 404]
        ELSE LET v == CHOOSE d \in found : TRUE
             IN  IF v.status = "verified"
                 THEN [save |-> FALSE, res |-> "Conflict", code |-> 400]
                 ELSE IF v.status = "expired" \/ v.expiresAt < now
                 THEN [save |-> TRUE, res |-> "Conflict", code |-> 400, compares |-> FALSE,
                       doc |-> [v EXCEPT !.status = "expired"], modified |-> {"status"}]
                 ELSE IF v.attempts >= 3
                 THEN [save |-> TRUE, res |-> "Conflict", code |-> 400, compares |-> FALSE,
                       doc |-> [v EXCEPT !.status = "expired"], modified |-> {"status"}]
                 ELSE IF v.verificationCode # code
                 THEN [save |-> TRUE, res |-> "ValidationError", code |-> 400,
                       compares |-> TRUE,
                       doc |-> [v EXCEPT !.attempts = @ + 1], modified |-> {"attempts"}]
                 ELSE [save |-> TRUE, res |-> "OK", code |-> 200, compares |-> TRUE,
                       doc |-> [v EXCEPT !.attempts = @ + 1, !.status = "verified"],
                       modified |-> {"attempts", "status"}]

VerifyCall(id, res, code) ==
    [op |-> "verify-code", id |-> id, user |-> NULL, peer |-> NULL, res |-> res, code |-> code]

Unrelated == <<connections, careerAgents, caIds, router, calls>>

\* POST /send-code
SendCode(code) ==
    /\ verificationIds < MaxRecords
    /\ verificationIds' = verificationIds + 1
    /\ verifications' = verifications \cup {NewVerification(verificationIds + 1, code, clock)}
    /\ last' = [op |-> "send-code", id |-> verificationIds + 1, user |-> NULL,
                peer |-> NULL, res |-> "OK", code |-> 201]
    /\ UNCHANGED <<clock, verifying, compared, Unrelated>>

\* PUT /verify-code refused by the validator
VerifyCodeRefused(id, code) ==
    /\ ~validateVerifyCode(code)
    /\ last' = VerifyCall(id, "ValidationError", 400)
    /\ UNCHANGED <<verificationVars, Unrelated>>

FreeSlots == (1..MaxInFlight) \ {w.slot : w \in verifying}

\* PUT /verify-code from findOne to the response or to the await of save()
VerifyCodeLoad(id, code) ==
    /\ validateVerifyCode(code)
    /\ LET o == VerifyCodeDecision(verifications, id, code, clock)
       IN  IF ~o.save
           THEN /\ last' = VerifyCall(id, o.res, o.code)
                /\ UNCHANGED <<verificationVars, Unrelated>>
           ELSE /\ FreeSlots # {}
                /\ o.compares => compared[id] < MaxCompared
                /\ verifying' = verifying \cup
                      {[slot |-> CHOOSE n \in FreeSlots : \A m \in FreeSlots : n <= m,
                        id |-> id, doc |-> o.doc, modified |-> o.modified,
                        res |-> o.res, code |-> o.code]}
                /\ compared' = IF o.compares THEN [compared EXCEPT ![id] = @ + 1]
                               ELSE compared
                /\ UNCHANGED <<verifications, verificationIds, clock, last, Unrelated>>

\* PUT /verify-code from save() to the response; save() of a document that
\* is gone throws and the catch answers 500
VerifyCodeSave(w) ==
    /\ w \in verifying
    /\ verifying' = verifying \ {w}
    /\ LET found == FindVerification(verifications, w.id)
           h == PreSave(w, clock)
       IN  IF found = {}
           THEN /\ last' = VerifyCall(w.id, "InternalError", 500)
                /\ UNCHANGED verifications
           ELSE /\ verifications' = {IF d \in found THEN SaveModified(d, h) ELSE d : d \in verifications}
                /\ last' = VerifyCall(w.id, w.res, w.code)
    /\ UNCHANGED <<verificationIds, clock, compared, Unrelated>>

\* the TTL index on expiresAt removes a document past its expiresAt
ExpireAfterSeconds(d) ==
    /\ d \in verifications
    /\ d.expiresAt < clock
    /\ verifications' = verifications \ {d}
    /\ UNCHANGED <<verificationIds, clock, verifying, compared, last, Unrelated>>

Tick ==
    /\ clock < MaxClock
    /\ clock' = clock + 1
    /\ UNCHANGED <<verifications, verificationIds, verifying, compared, last, Unrelated>>

NextVerify ==
    \/ \E code \in VerificationCodes : SendCode(code)
    \/ \E id \in 1..MaxRecords, code \in SubmittedCodes : VerifyCodeRefused(id, code)
    \/ \E id \in 1..MaxRecords, code \in SubmittedCodes : VerifyCodeLoad(id, code)
    \/ \E w \in verifying : VerifyCodeSave(w)
    \/ \E d \in verifications : ExpireAfterSeconds(d)
    \/ Tick

SpecVerify == Init /\ [][NextVerify]_vars

(***************************************************************************)
(* Properties                                                              *)
(***************************************************************************)

\* C1 - Exclusivity (I3): in every reachable state of either router no two
\* career-agent relationships with the same candidate are both active.
Exclusivity ==
    /\ \A d1 \in connections : \A d2 \in connections :
          (/\ d1.connectionType = "careerAgent" /\ d2.connectionType = "careerAgent"
           /\ d1.candidateId = d2.candidateId
           /\ d1.relationshipStatus = "active" /\ d2.relationshipStatus = "active")
          => d1 = d2
    /\ \A d1 \in careerAgents : \A d2 \in careerAgents :
          (/\ d1.candidateId = d2.candidateId
           /\ d1.relationshipStatus = "active" /\ d2.relationshipStatus = "active")
          => d1 = d2

\* C1 - an accept has just been refused because another agent is active for the
\* candidate: the accepted connection still waits
ExclusivityRefusedAccept ==
    /\ last.op = "accept"
    /\ last.res = "InternalError"
    /\ \E d1 \in connections : \E d2 \in connections :
          /\ d1._id # d2._id
          /\ d1.connectionType = "careerAgent" /\ d2.connectionType = "careerAgent"
          /\ d1.candidateId = d2.candidateId
          /\ d1.careerAgentId # d2.careerAgentId
          /\ d1.relationshipStatus = "active"
          /\ d2._id = last.id
          /\ d2.relationshipStatus \in acceptableStatuses

\* C2 - Pair uniqueness (I4): in every reachable state, for every kind and
\* every unordered pair of people, at most one relationship between them has a
\* status other than rejected and inactive.
PairUniqueness ==
    /\ \A d1 \in connections : \A d2 \in connections :
          LET parties(d) == IF d.connectionType = "friend"
                            THEN {d.requestorUserId, d.recipientUserId}
                            ELSE {d.careerAgentId, d.candidateId}
          IN  (/\ d1.connectionType = d2.connectionType
               /\ parties(d1) = parties(d2)
               /\ d1.relationshipStatus \notin {"rejected", "inactive"}
               /\ d2.relationshipStatus \notin {"rejected", "inactive"})
              => d1 = d2
    /\ \A d1 \in careerAgents : \A d2 \in careerAgents :
          (/\ {d1.careerAgentId, d1.candidateId} = {d2.careerAgentId, d2.candidateId}
           /\ d1.relationshipStatus \notin {"rejected", "inactive"}
           /\ d2.relationshipStatus \notin {"rejected", "inactive"})
          => d1 = d2

\* C3 - Race on exclusivity: once the proposals of u1 and of u3 to u2 and the
\* accepts of both connections by u2 are all answered, each accept having found
\* its connection, exactly one connection of u2 is active and one of the four
\* requests was answered with a Conflict.
RaceOnExclusivity ==
    LET race == {c \in RaceCalls : c.op \in {"propose", "accept"}}
        res(c) == (CHOOSE x \in Answer(c) : TRUE).res
    IN  (/\ \A c \in race : Answer(c) # {}
         /\ \A c \in race : c.op = "accept" => res(c) # "NotFound")
        => /\ Cardinality({d \in connections :
                            /\ d.connectionType = "careerAgent"
                            /\ d.candidateId = "u2"
                            /\ d.relationshipStatus = "active"}) = 1
           /\ \E c \in race : res(c) = "Conflict"

\* C4 - Atomic check-and-write: of two friend requests between u1 and u2, in the
\* same or in opposite directions, however their steps interleave, one is
\* answered OK and the other with a Conflict, and at no time do two connections
\* of u1 and u2 both have a status other than rejected and inactive.
AtomicCheckAndWrite ==
    LET asked == {c \in RaceCalls : c.op = "request"}
        res(c) == (CHOOSE x \in Answer(c) : TRUE).res
    IN  /\ \A c1 \in asked : \A c2 \in asked :
              (/\ c1 # c2
               /\ Received \cap asked = {c1, c2}
               /\ Answer(c1) # {} /\ Answer(c2) # {})
              => {res(c1), res(c2)} = {"OK", "Conflict"}
        /\ Cardinality({d \in connections :
                         /\ d.connectionType = "friend"
                         /\ {d.requestorUserId, d.recipientUserId} = {"u1", "u2"}
                         /\ d.relationshipStatus \notin {"rejected", "inactive"}}) <= 1

\* C5 - Self-relationship rejection: a createDirect, request or propose of a
\* person with themselves is answered with a ValidationError, and no stored
\* relationship links a person to themselves.
SelfRelationshipRejected ==
    /\ (last.op \in {"createDirect", "request", "propose"} /\ last.user = last.peer)
          => last.res = "ValidationError"
    /\ \A d \in connections :
          /\ d.connectionType = "friend" => d.requestorUserId # d.recipientUserId
          /\ d.connectionType = "careerAgent" => d.careerAgentId # d.candidateId
    /\ \A d \in careerAgents : d.careerAgentId # d.candidateId

OnlyReceiverDecides ==
    [][/\ \A d \in connections :
            (/\ last'.op \in {"accept", "reject"}
             /\ last'.id = d._id
             /\ d.relationshipStatus \in acceptableStatuses
             /\ last'.user = d.requestorUserId
             /\ d.requestorUserId # d.recipientUserId)
            => last'.res = "Forbidden"
       /\ \A d \in careerAgents :
            (/\ last'.op \in {"accept", "reject"}
             /\ last'.id = d._id
             /\ d.relationshipStatus \in pendingOrProposed
             /\ last'.user = IF d.relationshipStatus = "pending"
                             THEN d.candidateId ELSE d.careerAgentId)
            => last'.res = "Forbidden"]_vars

\* C8 - Monotonic terminal state: no step changes the status of a relationship
\* that is rejected.
RejectedIsFinal ==
    [][/\ \A d \in connections : \A e \in connections' :
            (d._id = e._id /\ d.relationshipStatus = "rejected")
            => e.relationshipStatus = "rejected"
       /\ \A d \in careerAgents : \A e \in careerAgents' :
            (d._id = e._id /\ d.relationshipStatus = "rejected")
            => e.relationshipStatus = "rejected"]_vars

\* C9 - No backward transition into active (I6): no step makes an inactive or a
\* rejected relationship active, and no step clears an endDate that is set.
NeverBackToActive ==
    [][/\ \A d \in connections : \A e \in connections' :
            d._id = e._id
            => /\ d.relationshipStatus \in {"inactive", "rejected"}
                    => e.relationshipStatus # "active"
               /\ d.endDate # NoDate => e.endDate # NoDate
       /\ \A d \in careerAgents : \A e \in careerAgents' :
            d._id = e._id
            => /\ d.relationshipStatus \in {"inactive", "rejected"}
                    => e.relationshipStatus # "active"
               /\ d.endDate # NoDate => e.endDate # NoDate]_vars

AcceptRevalidatesExclusivity ==
    [][/\ \A d \in connections : \A a \in connections :
            (/\ last'.op = "accept"
             /\ last'.id = d._id
             /\ last'.user \in {d.recipientUserId, d.candidateId}
             /\ d.connectionType = "careerAgent"
             /\ d.relationshipStatus \in acceptableStatuses
             /\ a._id # d._id
             /\ a.connectionType = "careerAgent"
             /\ a.candidateId = d.candidateId
             /\ a.relationshipStatus = "active")
            => (last'.res = "Conflict" /\ connections' = connections)
       /\ \A d \in careerAgents : \A a \in careerAgents :
            (/\ last'.op = "accept"
             /\ last'.id = d._id
             /\ d.relationshipStatus \in pendingOrProposed
             /\ last'.user = IF d.relationshipStatus = "pending"
                             THEN d.careerAgentId ELSE d.candidateId
             /\ a._id # d._id
             /\ a.candidateId = d.candidateId
             /\ a.relationshipStatus = "active")
            => (last'.res = "Conflict" /\ careerAgents' = careerAgents)]_vars

RejectOnlyWhileWaiting ==
    [][/\ \A d \in connections :
            (/\ last'.op = "reject"
             /\ last'.id = d._id
             /\ last'.user \in {d.recipientUserId, d.candidateId}
             /\ d.relationshipStatus \in {"active", "inactive", "rejected"})
            => (last'.res # "OK" /\ connections' = connections)
       /\ \A d \in careerAgents :
            (/\ last'.op = "reject"
             /\ last'.id = d._id
             /\ last'.user \in {d.careerAgentId, d.candidateId}
             /\ d.relationshipStatus \in {"active", "inactive", "rejected"})
            => (last'.res # "OK" /\ careerAgents' = careerAgents)]_vars

\* C14 - Effect of reject: a reject answered OK leaves the relationship it names
\* rejected, with the endDate read at the reject and with the note of the
\* request if it carries one, its own note otherwise; nothing else changes.
RejectSetsRejectedAndEndDate ==
    [][(last'.op = "reject" /\ last'.res = "OK")
       => /\ router = "connections"
             => \E d \in connections : \E t \in Times : \E m \in One.notes :
                   /\ d._id = last'.id
                   /\ connections' = (connections \ {d}) \cup
                         {[d EXCEPT !.relationshipStatus = "rejected",
                                    !.endDate = t,
                                    !.message = IF m # NULL THEN m ELSE @]}
          /\ router = "careerAgent"
             => \E d \in careerAgents : \E t \in Times : \E m \in One.notes :
                   /\ d._id = last'.id
                   /\ careerAgents' = (careerAgents \ {d}) \cup
                         {[d EXCEPT !.relationshipStatus = "rejected",
                                    !.endDate = t,
                                    !.message = IF m # NULL THEN m ELSE @]}]_vars

\* C15 - request and propose respect exclusivity: a career-agent request or
\* proposal between two different people with profiles, whose candidate has an
\* active career-agent relationship, is answered with a Conflict and leaves
\* every relationship as it was.
ActiveCandidateRefused ==
    [][/\ (/\ router = "connections"
           /\ last'.op \in {"request", "propose"}
           /\ last'.user # last'.peer
           /\ last'.peer \in Profiles
           /\ \E a \in connections :
                 /\ a.connectionType = "careerAgent"
                 /\ a.candidateId = last'.peer
                 /\ a.relationshipStatus = "active")
          => (last'.res = "Conflict" /\ connections' = connections)
       /\ (/\ router = "careerAgent"
           /\ last'.op \in {"request", "propose"}
           /\ last'.user # last'.peer
           /\ last'.peer \in Profiles
           /\ \E a \in careerAgents :
                 /\ a.candidateId = IF last'.op = "request" THEN last'.user ELSE last'.peer
                 /\ a.relationshipStatus = "active")
          => (last'.res = "Conflict" /\ careerAgents' = careerAgents)]_vars

\* C16 - Duplicate request: in every reachable state, for every stored
\* relationship whose status is neither rejected nor inactive, a request of its
\* kind from either of its parties to the other is answered with a Conflict and
\* stores nothing.
DuplicateRequestRefused ==
    /\ \A d \in connections : \A t \in Times :
          LET ends == IF d.connectionType = "friend"
                      THEN <<d.requestorUserId, d.recipientUserId>>
                      ELSE <<d.careerAgentId, d.candidateId>>
          IN  d.relationshipStatus \notin {"rejected", "inactive"}
              => \A p \in {ends, <<ends[2], ends[1]>>} :
                    LET o == RequestOutcome(connections, p[1], p[2], d.connectionType,
                                            Hello, t)
                    IN  o.res = "Conflict" /\ o.db = connections
    /\ \A d \in careerAgents : \A t \in Times :
          d.relationshipStatus \notin {"rejected", "inactive"}
          => \A p \in {<<d.candidateId, d.careerAgentId>>,
                       <<d.careerAgentId, d.candidateId>>} :
                LET o == CARequestOutcome(careerAgents, caIds, p[1], p[2], Hello, t)
                IN  o.res = "Conflict" /\ o.db = careerAgents

\* C17 - Profile existence (I5): a createDirect, request or propose that names
\* a person without a profile, as the caller or as the other party, is answered
\* NotFound, and every stored relationship is between people with profiles.
PartiesHaveProfiles ==
    /\ (/\ last.op \in {"createDirect", "request", "propose"}
        /\ (last.user \notin Profiles \/ last.peer \notin Profiles))
          => last.res = "NotFound"
    /\ \A d \in connections :
          /\ d.connectionType = "friend"
                => {d.requestorUserId, d.recipientUserId} \subseteq Profiles
          /\ d.connectionType = "careerAgent"
                => {d.careerAgentId, d.candidateId} \subseteq Profiles
    /\ \A d \in careerAgents : {d.careerAgentId, d.candidateId} \subseteq Profiles

\* C18 - createDirect of a career-agent relationship, while the candidate has an
\* active career-agent relationship or a relationship of the pair is neither
\* rejected nor inactive, is answered with a Conflict, stores nothing, and its
\* response identifies one of the relationships in the way.
CreateDirectRefusedWithBlocker ==
    /\ \A b \in Two.direct : \A t \in Times :
          LET inTheWay == {d \in connections :
                             /\ d.connectionType = "careerAgent"
                             /\ \/ (/\ d.candidateId = b.candidateId
                                    /\ d.relationshipStatus = "active")
                                \/ (/\ {d.careerAgentId, d.candidateId}
                                          = {b.careerAgentId, b.candidateId}
                                    /\ d.relationshipStatus \notin {"rejected", "inactive"})}
              o == CreateOutcome(connections, b, t)
          IN  inTheWay # {}
              => /\ o.res = "Conflict"
                 /\ o.db = connections
                 /\ CreateBlocking(connections, b) \cap inTheWay # {}
    /\ \A b \in Two.caDirect : \A t \in Times :
          LET inTheWay == {d \in careerAgents :
                             \/ (/\ d.candidateId = b.candidateId
                                 /\ d.relationshipStatus = "active")
                             \/ (/\ {d.careerAgentId, d.candidateId}
                                       = {b.careerAgentId, b.candidateId}
                                 /\ d.relationshipStatus \notin {"rejected", "inactive"})}
              o == CACreateOutcome(careerAgents, caIds, b, t)
          IN  inTheWay # {}
              => /\ o.res = "Conflict"
                 /\ o.db = careerAgents
                 /\ CACreateBlocking(careerAgents, b) \cap inTheWay # {}

\* C19 - Status given by createDirect: in every reachable state, a createDirect
\* answered OK stores a relationship that is active when the body carries no
\* status, and has the status the body carries otherwise.
CreateDirectDefaultsToActive ==
    /\ \A b \in One.direct : \A t \in Times :
          LET o == CreateOutcome(connections, b, t)
          IN  o.res = "OK"
              => \A d \in o.db \ connections :
                    d.relationshipStatus = IF b.relationshipStatus = NULL THEN "active"
                                           ELSE b.relationshipStatus
    /\ \A b \in One.caDirect : \A t \in Times :
          LET o == CACreateOutcome(careerAgents, caIds, b, t)
          IN  o.res = "OK"
              => \A d \in o.db \ careerAgents :
                    d.relationshipStatus = IF b.relationshipStatus = NULL THEN "active"
                                           ELSE b.relationshipStatus

\* C20 - startDate is set on becoming active: a relationship that a
\* createDirect, request or propose has just stored with a status of requested,
\* proposed or pending has no startDate.
NoStartDateBeforeActive ==
    (last.op \in {"createDirect", "request", "propose"} /\ last.res = "OK")
    => /\ \A d \in connections :
             (d._id = last.id /\ d.relationshipStatus \in acceptableStatuses)
             => d.startDate = NoDate
       /\ \A d \in careerAgents :
             (d._id = last.id /\ d.relationshipStatus \in acceptableStatuses)
             => d.startDate = NoDate

\* C21 - update is restricted to parties: on either router, an update of a
\* relationship by a user who is none of its parties is answered Forbidden and
\* leaves every relationship as it was.
UpdateByPartiesOnly ==
    [][/\ \A d \in connections :
            (/\ last'.op = "update"
             /\ last'.id = d._id
             /\ last'.user \notin {d.requestorUserId, d.recipientUserId,
                                   d.careerAgentId, d.candidateId})
            => (last'.res = "Forbidden" /\ connections' = connections)
       /\ \A d \in careerAgents :
            (/\ last'.op = "update"
             /\ last'.id = d._id
             /\ last'.user \notin {d.careerAgentId, d.candidateId})
            => (last'.res = "Forbidden" /\ careerAgents' = careerAgents)]_vars

\* C22 - update stamps endDate: a relationship that an update answered OK has
\* moved to inactive has an endDate.
UpdateToInactiveStampsEndDate ==
    [][(last'.op = "update" /\ last'.res = "OK")
       => /\ \A d \in connections : \A e \in connections' :
                (/\ d._id = last'.id /\ e._id = d._id
                 /\ d.relationshipStatus # "inactive"
                 /\ e.relationshipStatus = "inactive")
                => e.endDate # NoDate
          /\ \A d \in careerAgents : \A e \in careerAgents' :
                (/\ d._id = last'.id /\ e._id = d._id
                 /\ d.relationshipStatus # "inactive"
                 /\ e.relationshipStatus = "inactive")
                => e.endDate # NoDate]_vars

\* C23 - GET /careeragent/relationship reports a relationship of an agent and
\* a candidate only when a careerAgent relationship of that agent and that
\* candidate is active; when none is, whatever else is stored, it answers
\* not found.
LookupOnlyForActive ==
    router = "connections" =>
        \A a \in Users : \A c \in Users :
            LET o == CareerAgentRelationshipOutcome(connections, a, c)
                active == {d \in connections : /\ d.connectionType = "careerAgent"
                                               /\ d.careerAgentId = a
                                               /\ d.candidateId = c
                                               /\ d.relationshipStatus = "active"}
            IN  /\ o.res = "OK" => o.rows \subseteq active
                /\ active = {} => o.res = "NotFound"

\* C24 - GET /potentialcontact asked by U1, as either file of the connections
\* router serves it, never lists U1, leaves out U2 while a relationship of
\* any kind between U1 and U2 is neither rejected nor inactive, and lists U2,
\* who has a profile, once there are relationships between them and every
\* one of them is rejected or inactive.
PotentialContactsFollowStatus ==
    router = "connections" =>
        \A u1 \in Users :
            \A o \in {PotentialContactOutcome(connections, u1),
                      PotentialContactCopyOutcome(connections, u1)} :
                LET linked(u2) ==
                        {d \in connections :
                            {u1, u2} \subseteq {d.requestorUserId, d.recipientUserId,
                                                d.careerAgentId, d.candidateId}}
                    open(u2) ==
                        {d \in linked(u2) :
                            d.relationshipStatus \notin {"rejected", "inactive"}}
                IN  /\ u1 \notin o.rows
                    /\ \A u2 \in Profiles \ {u1} :
                        /\ open(u2) # {} => u2 \notin o.rows
                        /\ (linked(u2) # {} /\ open(u2) = {}) => u2 \in o.rows

\* C25 - GET /connected asked by U for a status lists every other person
\* linked to U by a relationship of that status exactly once, whatever the
\* number and the kinds of the relationships that link them, and the userId
\* of a row is that other person's: never U's own and never null.
ConnectedListsOthersOnce ==
    router = "connections" =>
        \A u \in Users : \A st \in Statuses :
            LET rows == ConnectedOutcome(connections, u, st, NULL).rows
                linked(o) ==
                    {d \in connections :
                        /\ {u, o} \subseteq {d.requestorUserId, d.recipientUserId,
                                             d.careerAgentId, d.candidateId}
                        /\ d.relationshipStatus = st}
            IN  /\ \A o \in Users \ {u} :
                        linked(o) # {} => Cardinality({r \in rows : r.userId = o}) = 1
                /\ \A r \in rows : Cardinality({q \in rows : q.userId = r.userId}) = 1
                /\ \A r \in rows : r.userId \notin {u, NULL}

\* C26 - The request views are complete: for every relationship that is
\* requested, proposed or pending, GET /requests/received asked by its
\* recipient lists its requestor and GET /requests/sent asked by its
\* requestor lists its recipient, whether a friend asked, a candidate asked
\* an agent or an agent proposed to a candidate.
RequestViewsComplete ==
    router = "connections" =>
        \A d \in connections :
            d.relationshipStatus \in acceptableStatuses =>
                /\ \E r \in RequestsReceivedOutcome(connections, d.recipientUserId,
                                                    NULL).rows :
                        r.userId = d.requestorUserId
                /\ \E r \in RequestsSentOutcome(connections, d.requestorUserId,
                                                NULL).rows :
                        r.userId = d.recipientUserId

\* C27 - GET /requests/received and GET /requests/sent hold at most one row
\* for each other person: the waiting relationships that link the caller to
\* the same person are merged into the one row of that person, and the
\* requestTypes of the row hold one tag for each request type among them
\* (the friend request, and the request or proposal of a career agent).
RequestRowsMerged ==
    router = "connections" =>
        \A u \in Users :
            LET received == RequestsReceivedOutcome(connections, u, NULL).rows
                sent == RequestsSentOutcome(connections, u, NULL).rows
                kinds(r) == {d.connectionType : d \in {m \in connections :
                                                        m._id \in r.requests}}
                tagged(r) ==
                    /\ r.requests # {}
                    /\ ("friend_request" \in r.requestTypes) <=> ("friend" \in kinds(r))
                    /\ (r.requestTypes \cap {"career_agent_request",
                                             "career_agent_proposal"} # {})
                            <=> ("careerAgent" \in kinds(r))
                    /\ Cardinality(r.requestTypes) = Cardinality(kinds(r))
            IN  /\ \A r \in received :
                        /\ Cardinality({q \in received : q.userId = r.userId}) = 1
                        /\ tagged(r)
                /\ \A r \in sent :
                        /\ Cardinality({q \in sent : q.userId = r.userId}) = 1
                        /\ tagged(r)
                /\ \A d \in ReceivedMatch(connections, u, NULL) :
                        \E r \in received : /\ r.userId = ReceivedOther(d, u)
                                            /\ d._id \in r.requests
                                            /\ ReceivedType(d, u) \in r.requestTypes
                /\ \A d \in SentMatch(connections, u, NULL) :
                        \E r \in sent : /\ r.userId = SentOther(d, u)
                                        /\ d._id \in r.requests
                                        /\ SentType(d, u) \in r.requestTypes

\* u2 has asked for the requests received while a friend request and a
\* proposal of u1 wait: both are in the one row of u1, with two tags
TwoRequestsInOneRow ==
    /\ router = "connections"
    /\ last.op = "requestsReceived" /\ last.user = "u2" /\ last.res = "OK"
    /\ \E r \in RequestsReceivedOutcome(connections, "u2", NULL).rows :
            /\ r.userId = "u1"
            /\ Cardinality(r.requests) = 2
            /\ Cardinality(r.requestTypes) = 2

\* C28 - GET /proposals/received asked by U lists exactly the careerAgent
\* relationships that are proposed and whose candidate is U, and GET
\* /proposals/sent exactly those whose career agent is U: no friend
\* relationship and no relationship of another status is in either list.
ProposalViewsExact ==
    router = "connections" =>
        \A u \in Users :
            LET received == ProposalsReceivedOutcome(connections, u)
                sent == ProposalsSentOutcome(connections, u)
            IN  /\ received.res = "OK" /\ sent.res = "OK"
                /\ received.rows \subseteq connections
                /\ sent.rows \subseteq connections
                /\ \A d \in connections :
                    /\ d \in received.rows <=>
                            (/\ d.connectionType = "careerAgent"
                             /\ d.connectionType # "friend"
                             /\ d.relationshipStatus = "proposed"
                             /\ d.candidateId = u)
                    /\ d \in sent.rows <=>
                            (/\ d.connectionType = "careerAgent"
                             /\ d.connectionType # "friend"
                             /\ d.relationshipStatus = "proposed"
                             /\ d.careerAgentId = u)

\* u2 has asked for the proposals received while the proposal of u1 and a
\* friend request wait: the list holds the proposal alone
ProposalListedAlone ==
    /\ router = "connections"
    /\ last.op = "proposalsReceived" /\ last.user = "u2" /\ last.res = "OK"
    /\ Cardinality(connections) = 2
    /\ \E d \in connections : d.connectionType = "friend"
    /\ Cardinality(ProposalsReceivedOutcome(connections, "u2").rows) = 1
    /\ ProposalsSentOutcome(connections, "u1").rows
            = ProposalsReceivedOutcome(connections, "u2").rows

\* C29 - The views are read-only: a step that serves GET /connected,
\* /requests/received, /requests/sent, /proposals/received, /proposals/sent,
\* /potentialcontact or /careeragent/relationship leaves both collections as
\* they were; the profiles are the same in every state.
ViewsReadOnly ==
    [][last'.op \in ViewOps =>
            /\ connections' = connections
            /\ careerAgents' = careerAgents
            /\ caIds' = caIds]_vars

\* a view has been served over a store that holds two relationships
ViewServedOverStore ==
    /\ last.op \in ViewOps
    /\ last.res = "OK"
    /\ Cardinality(connections) = 2

\* C30 - A call that creates a relationship and leaves out a party it needs
\* (POST / without careerAgentId or candidateId of a careerAgent
\* relationship, without requestorUserId or recipientUserId of a friend
\* relationship or with an empty body, POST /request and POST /propose
\* without the person asked) is answered 400 as a validation error and
\* stores nothing.
CreationNeedsParties ==
    LET refused(o, db) == o.code = 400 /\ o.res = "ValidationError" /\ o.db = db
        lacking ==
            {b \in Three.direct :
                \/ b.connectionType = NULL
                \/ /\ b.connectionType = "careerAgent"
                   /\ (b.careerAgentId = NULL \/ b.candidateId = NULL)
                \/ /\ b.connectionType = "friend"
                   /\ (b.requestorUserId = NULL \/ b.recipientUserId = NULL)}
        caLacking == {b \in Three.caDirect : b.careerAgentId = NULL \/ b.candidateId = NULL}
    IN  \A t \in Times :
            /\ router = "connections" =>
                /\ \A b \in lacking : refused(CreateOutcome(connections, b, t), connections)
                /\ \A u \in Users : \A k \in Kinds :
                        refused(RequestOutcome(connections, u, NULL, k, Hello, t),
                                connections)
                /\ \A u \in Users :
                        refused(ProposeOutcome(connections, u, NULL, Hello, t), connections)
            /\ router = "careerAgent" =>
                /\ \A b \in caLacking :
                        refused(CACreateOutcome(careerAgents, caIds, b, t), careerAgents)
                /\ \A u \in Users :
                        refused(CARequestOutcome(careerAgents, caIds, u, NULL, Hello, t),
                                careerAgents)
                /\ \A u \in Users :
                        refused(CAProposeOutcome(careerAgents, caIds, u, NULL, Hello, t),
                                careerAgents)

\* C31 - The kind and the parties of a relationship never change: no request
\* changes the connectionType, requestorUserId, recipientUserId,
\* careerAgentId or candidateId of a stored relationship, and an update
\* changes nothing but relationshipStatus, message and endDate.
KindAndPartiesImmutable ==
    [][/\ \A d \in connections : \A e \in connections' :
            e._id = d._id =>
                /\ e.connectionType = d.connectionType
                /\ e.requestorUserId = d.requestorUserId
                /\ e.recipientUserId = d.recipientUserId
                /\ e.careerAgentId = d.careerAgentId
                /\ e.candidateId = d.candidateId
                /\ last'.op = "update" => e.startDate = d.startDate
       /\ \A d \in careerAgents : \A e \in careerAgents' :
            e._id = d._id =>
                /\ e.careerAgentId = d.careerAgentId
                /\ e.candidateId = d.candidateId
                /\ last'.op = "update" => e.startDate = d.startDate]_vars

\* C32 - The roles of a careerAgent relationship are consistent in every
\* state: its career agent is not its candidate, and its requestor and
\* recipient are the agent and the candidate, in either order; neither is
\* absent or a third person.
CareerAgentRolesConsistent ==
    /\ \A d \in connections :
        d.connectionType = "careerAgent" =>
            /\ d.careerAgentId # d.candidateId
            /\ <<d.requestorUserId, d.recipientUserId>>
                    \in {<<d.careerAgentId, d.candidateId>>,
                         <<d.candidateId, d.careerAgentId>>}
    /\ \A d \in careerAgents : d.careerAgentId # d.candidateId

\* C33 - A friend relationship is never proposed: in no state reached by
\* createDirect, request, propose, accept, reject and update does a stored
\* relationship have connectionType friend and relationshipStatus proposed.
FriendNeverProposed ==
    \A d \in connections :
        d.connectionType = "friend" => d.relationshipStatus # "proposed"

\* C34 - Relationships are removed by delete alone: DELETE /:relationshipId
\* removes the relationship it names, whatever its status, and nothing
\* else; it answers not found and changes nothing when no such relationship
\* is stored; and no other request removes a stored relationship.
RemovedOnlyByDelete ==
    [][/\ \A d \in connections : \E e \in connections' : e._id = d._id
       /\ \A d \in careerAgents :
            (\A e \in careerAgents' : e._id # d._id) =>
                last'.op = "delete" /\ last'.id = d._id /\ last'.res = "OK"
       /\ last'.op = "delete" =>
            IF \E d \in careerAgents : d._id = last'.id
            THEN /\ last'.res = "OK"
                 /\ careerAgents' = {d \in careerAgents : d._id # last'.id}
            ELSE /\ last'.res = "NotFound"
                 /\ careerAgents' = careerAgents]_vars

\* one of two stored relationships has been deleted and the other is left
DeletedOneOfTwo ==
    /\ last.op = "delete" /\ last.res = "OK"
    /\ caIds = 2
    /\ Cardinality(careerAgents) = 1
    /\ \A d \in careerAgents : d._id # last.id

\* C35 - Closed relationships do not block new ones: when relationships of
\* a kind between two people are stored and every one of them is rejected
\* or inactive, a new request or proposal between the two is answered OK
\* and adds a new relationship, leaving the closed ones as they are.
ClosedDoesNotBlock ==
    \A u1 \in Users : \A u2 \in Users \ {u1} : \A t \in Times :
        LET closed(db, kindOf(_)) ==
                LET between == {d \in db :
                                   /\ kindOf(d)
                                   /\ {u1, u2} \subseteq
                                        {d.careerAgentId, d.candidateId} \cup
                                        (IF "requestorUserId" \in DOMAIN d
                                         THEN {d.requestorUserId, d.recipientUserId}
                                         ELSE {})}
                IN  /\ between # {}
                    /\ \A d \in between :
                            d.relationshipStatus \in {"rejected", "inactive"}
            added(o, db) ==
                /\ o.res = "OK"
                /\ db \subseteq o.db
                /\ Cardinality(o.db) = Cardinality(db) + 1
            friend(d) == d.connectionType = "friend"
            agent(d) == d.connectionType = "careerAgent"
            any(d) == TRUE
        IN  /\ (router = "connections" /\ closed(connections, friend)) =>
                added(RequestOutcome(connections, u1, u2, "friend", Hello, t), connections)
            /\ (router = "connections" /\ closed(connections, agent)) =>
                /\ added(RequestOutcome(connections, u1, u2, "careerAgent", Hello, t),
                         connections)
                /\ added(ProposeOutcome(connections, u1, u2, Hello, t), connections)
            /\ (router = "careerAgent" /\ closed(careerAgents, any)) =>
                /\ added(CARequestOutcome(careerAgents, caIds, u1, u2, Hello, t),
                         careerAgents)
                /\ added(CAProposeOutcome(careerAgents, caIds, u1, u2, Hello, t),
                         careerAgents)

\* C36 - The request views of a user are disjoint: no relationship is
\* behind both a row of GET /requests/received and a row of GET
\* /requests/sent asked by the same user, so nobody sees a request they sent
\* as received or one they received as sent.
RequestViewsDisjoint ==
    router = "connections" =>
        \A u \in Users :
            \A r \in RequestsReceivedOutcome(connections, u, NULL).rows :
                \A q \in RequestsSentOutcome(connections, u, NULL).rows :
                    r.requests \cap q.requests = {}

\* C37 - The request-type tags tell how a relationship was started: once
\* POST /propose has stored a relationship, the row of it in the requests
\* received by the candidate and in the requests sent by the agent is tagged
\* career_agent_proposal; one stored by POST /request is tagged
\* career_agent_request for a career agent and friend_request for a friend;
\* and no row has the tag unknown or a userId of null.
TagsFollowInitiation ==
    [][router = "connections" =>
        /\ (last'.op \in {"request", "propose"} /\ last'.res = "OK") =>
            \A d \in connections' :
                d._id = last'.id =>
                    LET tag == IF last'.op = "propose" THEN "career_agent_proposal"
                               ELSE IF d.connectionType = "careerAgent"
                                    THEN "career_agent_request"
                               ELSE "friend_request"
                    IN  /\ \E r \in RequestsReceivedOutcome(connections', last'.peer,
                                                            NULL).rows :
                                /\ r.userId = last'.user
                                /\ d._id \in r.requests
                                /\ tag \in r.requestTypes
                        /\ \E r \in RequestsSentOutcome(connections', last'.user,
                                                        NULL).rows :
                                /\ r.userId = last'.peer
                                /\ d._id \in r.requests
                                /\ tag \in r.requestTypes
        /\ \A u \in Users :
            \A r \in RequestsReceivedOutcome(connections', u, NULL).rows
                        \cup RequestsSentOutcome(connections', u, NULL).rows :
                /\ "unknown" \notin r.requestTypes
                /\ r.userId # NULL]_vars

\* C38 - The guard of the cover letters lets a request about a document of
\* another person (fromUserId is not forUserId) proceed exactly when the
\* caller is fromUserId and is the active career agent of forUserId; without
\* an active careerAgent relationship of the two it refuses with Forbidden.
CoverLetterGuardFollowsActiveAgent ==
    router = "connections" =>
        \A userId \in Users : \A fromUserId \in Users : \A forUserId \in Users :
            fromUserId # forUserId =>
                LET active == {d \in connections :
                                  /\ d.connectionType = "careerAgent"
                                  /\ d.careerAgentId = fromUserId
                                  /\ d.candidateId = forUserId
                                  /\ d.relationshipStatus = "active"}
                    access == verifyCoverLetterAccess(connections, userId, fromUserId,
                                                      forUserId)
                IN  /\ access \in {"next", "Forbidden"}
                    /\ access = "next" <=> (userId = fromUserId /\ active # {})

AttemptsWithinThree == \A d \in verifications : d.attempts <= 3

ComparisonsWithinThree == \A i \in 1..MaxRecords : compared[i] <= 3

ClosedNeverVerified ==
    \A d \in verifications : \A e \in verifications' :
        (d.verificationId = e.verificationId /\ d.status \in {"verified", "expired"})
            => (e.status = "verified" => d.status = "verified")

\* C39 - Verification attempts are bounded: over any sequence of verify-code
\* calls on one verification record the attempts counter of the record never
\* exceeds 3, at most 3 calls compare a submitted code with the stored code,
\* and a record that is verified or expired is never turned to verified by a
\* later call, whatever code it carries.
VerificationAttemptsBounded ==
    /\ [](AttemptsWithinThree /\ ComparisonsWithinThree)
    /\ [][ClosedNeverVerified]_vars

====
